---- MODULE Spec2Model ----
(***************************************************************************)
(* The knowledge graph store of src/src/MemoryServer.ts                    *)
(* (KnowledgeGraphManager): the backing file, loadGraph / saveGraph, the   *)
(* mutation and query operations, each a load step followed by a second    *)
(* step that computes, persists and returns, run by one or by two callers; *)
(* and the fetch tool of src/src/FetchServer.ts.                           *)
(***************************************************************************)
EXTENDS Integers, Sequences, FiniteSets, TLC

\* ------------------------------------------------------------------ bounds
MaxBatch == 2      \* longest argument list of a call (candidates, entries, names)
MaxOps == 3        \* calls started in one behaviour of Spec
MaxObs == 2        \* longest observations / contents list of SpecObs
MaxObsOps == 2     \* calls started in one behaviour of SpecObs
MaxRaceOps == 3    \* calls started in one behaviour of SpecRace
MaxQueryOps == 3   \* calls started in one behaviour of SpecQuery
MaxDistinctOps == 3 \* calls started in one behaviour of SpecDistinct
MaxScenarioOps == 7 \* calls started in one behaviour of SpecScenario
MaxFetchOps == 2   \* calls started in one behaviour of SpecFetch

\* ------------------------------------------------------------ input values
Names == {"a", "b"}
EntityTypes == {"t"}
Strings == {"x", "y"}
RelationTypes == {"r"}
Procs == {1, 2}

BSeq(S, n) == UNION {[1..k -> S] : k \in 0..n}

EntityInputs(obs) == [name : Names, entityType : EntityTypes, observations : obs]
RelationInputs == [from : Names, to : Names, relationType : RelationTypes]
ObservationInputs(obs) == [entityName : Names, contents : obs]
DeletionInputs(obs) == [entityName : Names, observations : obs]

\* The arguments the calls of a specification draw from, and its call budget.
Narrow ==
  LET obs == BSeq({"x"}, 1)
  IN [entities |-> BSeq(EntityInputs(obs), MaxBatch),
      relations |-> BSeq(RelationInputs, MaxBatch),
      observations |-> BSeq(ObservationInputs(obs), MaxBatch),
      entityNames |-> BSeq(Names, MaxBatch),
      deletions |-> BSeq(DeletionInputs(obs), MaxBatch),
      maxOps |-> MaxOps]

Wide ==
  LET obs == BSeq(Strings, MaxObs)
  IN [entities |-> BSeq(EntityInputs(obs), 1),
      relations |-> BSeq(RelationInputs, 1),
      observations |-> BSeq(ObservationInputs(obs), MaxBatch),
      entityNames |-> BSeq(Names, 1),
      deletions |-> BSeq(DeletionInputs(obs), MaxBatch),
      maxOps |-> MaxObsOps]

Single ==
  LET obs == BSeq({"x"}, 1)
  IN [entities |-> BSeq(EntityInputs(obs), 1),
      relations |-> BSeq(RelationInputs, 1),
      observations |-> BSeq(ObservationInputs(obs), 1),
      entityNames |-> BSeq(Names, 1),
      deletions |-> BSeq(DeletionInputs(obs), 1),
      maxOps |-> MaxRaceOps]

\* Batches whose candidates bear pairwise distinct names, or are pairwise
\* distinct triples.
Distinct ==
  LET obs == BSeq({"x"}, 0)
      es == BSeq(EntityInputs(obs), MaxBatch)
      rs == BSeq([from : Names, to : {"a"}, relationType : RelationTypes], MaxBatch)
  IN [entities |-> {q \in es : \A i, j \in DOMAIN q : q[i].name = q[j].name => i = j},
      relations |-> {q \in rs : \A i, j \in DOMAIN q : q[i] = q[j] => i = j},
      entityNames |-> BSeq(Names, 1),
      maxOps |-> MaxDistinctOps]

\* The arguments of the Alice and Bob scenario, one per tool.
Scenario ==
  [entities |-> {<<[name |-> "Alice", entityType |-> "person", observations |-> <<>>],
                   [name |-> "Bob", entityType |-> "person", observations |-> <<>>]>>},
   relations |-> {<<[from |-> "Alice", to |-> "Bob", relationType |-> "knows"]>>},
   observations |-> {<<[entityName |-> "Alice", contents |-> <<"likes coffee">>]>>},
   entityNames |-> {<<"Bob">>},
   deletions |-> {<<[entityName |-> "Alice", observations |-> <<"likes coffee">>]>>},
   maxOps |-> MaxScenarioOps]

\* The tools the scenario calls, in order.
Script == <<"create_entities", "create_relations", "add_observations",
            "delete_entities", "read_graph">>

\* Names, observations and queries whose letters and case matter to a search.
QueryNames == {"Al", "Bo"}
QueryStrings == {"la"}
Queries == {"", "AL", "la", "bo", "t", "z"}

Lookup ==
  LET obs == BSeq(QueryStrings, 1)
  IN [entities |-> BSeq([name : QueryNames, entityType : EntityTypes, observations : obs],
                        MaxBatch),
      relations |-> BSeq([from : QueryNames, to : QueryNames, relationType : RelationTypes],
                         MaxBatch),
      queries |-> Queries,
      names |-> BSeq(QueryNames, MaxBatch),
      maxOps |-> MaxQueryOps]

\* --------------------------------------------------------- JavaScript values
Undefined == "undefined"

\* item.k of a JavaScript object (undefined when the key is absent).
Get(item, k) == IF k \in DOMAIN item THEN item[k] ELSE Undefined

\* Array.prototype.includes
Includes(arr, v) == \E i \in DOMAIN arr : arr[i] = v

\* The index Array.prototype.find stops at: the first entity named n, 0 if none.
FindEntity(entities, n) ==
  IF \E i \in DOMAIN entities : Get(entities[i], "name") = n
  THEN CHOOSE i \in DOMAIN entities :
         /\ Get(entities[i], "name") = n
         /\ \A j \in 1..(i - 1) : Get(entities[j], "name") # n
  ELSE 0

\* The characters of a string; a string not listed is one character long.
Chars(s) ==
  CASE s = "" -> <<>>
    [] s = "Al" -> <<"A", "l">>
    [] s = "AL" -> <<"A", "L">>
    [] s = "Bo" -> <<"B", "o">>
    [] s = "bo" -> <<"b", "o">>
    [] s = "la" -> <<"l", "a">>
    [] OTHER -> <<s>>

LowerChar(c) ==
  CASE c = "A" -> "a"
    [] c = "B" -> "b"
    [] c = "L" -> "l"
    [] OTHER -> c

\* String.prototype.toLowerCase, as the characters of the lowered string.
toLowerCase(s) == [i \in DOMAIN Chars(s) |-> LowerChar(Chars(s)[i])]

\* String.prototype.includes that finds no empty search string.
StringIncludesNonEmpty(hay, needle) ==
  \E i \in 1..(Len(hay) - Len(needle) + 1) :
    needle # <<>> /\ SubSeq(hay, i, i + Len(needle) - 1) = needle

\* String.prototype.includes on characters: needle occurs in hay at some offset.
StringIncludes(hay, needle) ==
  \E i \in 0..(Len(hay) - Len(needle)) : SubSeq(hay, i + 1, i + Len(needle)) = needle

\* ------------------------------------------------------------------- codec
\* The file's text is held as the lines data.split("\n") yields. A line is
\* blank or the JSON text of an object: its key/value pairs in written order.
BlankLine == [form |-> "blank", pairs |-> <<>>]
EmptyObjectLine == [form |-> "object", pairs |-> <<>>]

\* A non-blank line that is not JSON text: JSON.parse throws on it.
MalformedLine == [form |-> "malformed", pairs |-> <<>>]

\* The content of the path when no file is there (a file has at least one line).
NoFile == <<>>

\* The order in which the store's objects list their keys.
KeyOrder == <<"type", "name", "entityType", "observations", "from", "to", "relationType">>

\* JSON.stringify of an object.
JSONstringify(obj) ==
  LET ks == SelectSeq(KeyOrder, LAMBDA k : k \in DOMAIN obj)
  IN [form |-> "object", pairs |-> [i \in 1..Len(ks) |-> <<ks[i], obj[ks[i]]>>]]

\* JSON.parse of a line: the object its pairs spell (a repeated key keeps its last value).
JSONparse(line) ==
  LET ps == line.pairs
      keys == {ps[i][1] : i \in DOMAIN ps}
      last(k) == CHOOSE i \in DOMAIN ps :
                   /\ ps[i][1] = k
                   /\ \A j \in DOMAIN ps : ps[j][1] = k => j <= i
  IN [k \in keys |-> ps[last(k)][2]]

\* { type: t, ...obj }
WithType(t, obj) == [k \in DOMAIN obj \cup {"type"} |-> IF k \in DOMAIN obj THEN obj[k] ELSE t]

\* lines.join("\n"), as the lines of the joined text: no line joins to the empty text.
Join(lines) == IF lines = <<>> THEN <<BlankLine>> ELSE lines

EmptyGraph == [entities |-> <<>>, relations |-> <<>>]

RECURSIVE ReduceLines(_, _, _)
ReduceLines(graph, lines, i) ==
  IF i > Len(lines) THEN graph
  ELSE LET item == JSONparse(lines[i])
           g1 == IF Get(item, "type") = "entity"
                 THEN [graph EXCEPT !.entities = Append(@, item)] ELSE graph
           g2 == IF Get(item, "type") = "relation"
                 THEN [g1 EXCEPT !.relations = Append(@, item)] ELSE g1
       IN ReduceLines(g2, lines, i + 1)

\* loadGraph on file content data.
loadGraph(data) ==
  LET lines == SelectSeq(data, LAMBDA line : line.form # "blank")
  IN ReduceLines(EmptyGraph, lines, 1)

\* The error loadGraph ends with on the path's content, Undefined when it
\* returns a graph: readFileString fails on a missing file and the failure
\* passes the generator's try/catch by; JSON.parse throws on a malformed line
\* and the catch rethrows what is not ENOENT.
loadError(data) ==
  IF data = NoFile THEN "ENOENT"
  ELSE IF \E i \in DOMAIN data : data[i].form = "malformed" THEN "SyntaxError"
  ELSE Undefined

\* The content saveGraph writes for graph.
saveGraph(graph) ==
  LET es == [i \in DOMAIN graph.entities |-> JSONstringify(WithType("entity", graph.entities[i]))]
      rs == [i \in DOMAIN graph.relations |-> JSONstringify(WithType("relation", graph.relations[i]))]
  IN Join(es \o rs)

\* -------------------------------------------------------------- operations
\* Each operation maps the loaded graph and its argument to the graph it hands
\* to saveGraph, the value it returns, and whether it threw before saving.
SameTriple(r, s) ==
  /\ Get(r, "from") = Get(s, "from")
  /\ Get(r, "to") = Get(s, "to")
  /\ Get(r, "relationType") = Get(s, "relationType")

\* createEntities without the filter on existing names.
createEntitiesUnfiltered(graph, entities) ==
  [graph |-> [graph EXCEPT !.entities = @ \o entities], result |-> entities, threw |-> FALSE]

createEntities(graph, entities) ==
  LET newEntities == SelectSeq(entities, LAMBDA e :
                       ~ \E i \in DOMAIN graph.entities : Get(graph.entities[i], "name") = e.name)
  IN [graph |-> [graph EXCEPT !.entities = @ \o newEntities],
      result |-> newEntities, threw |-> FALSE]

\* createRelations without the filter on existing triples.
createRelationsUnfiltered(graph, relations) ==
  [graph |-> [graph EXCEPT !.relations = @ \o relations], result |-> relations, threw |-> FALSE]

\* createRelations that stores only relations whose endpoints both name entities.
createRelationsChecked(graph, relations) ==
  LET newRelations == SelectSeq(relations, LAMBDA r :
                        /\ FindEntity(graph.entities, r.from) # 0
                        /\ FindEntity(graph.entities, r.to) # 0
                        /\ ~ \E i \in DOMAIN graph.relations : SameTriple(graph.relations[i], r))
  IN [graph |-> [graph EXCEPT !.relations = @ \o newRelations],
      result |-> newRelations, threw |-> FALSE]

\* createRelations that also creates an entity for a from that names none.
createRelationsWithEndpoints(graph, relations) ==
  LET newRelations == SelectSeq(relations, LAMBDA r :
                        ~ \E i \in DOMAIN graph.relations : SameTriple(graph.relations[i], r))
      missing == SelectSeq(newRelations, LAMBDA r : FindEntity(graph.entities, r.from) = 0)
  IN [graph |-> [entities |-> graph.entities \o
                                [i \in DOMAIN missing |->
                                   [name |-> missing[i].from, entityType |-> "",
                                    observations |-> <<>>]],
                 relations |-> graph.relations \o newRelations],
      result |-> newRelations, threw |-> FALSE]

createRelations(graph, relations) ==
  LET newRelations == SelectSeq(relations, LAMBDA r :
                        ~ \E i \in DOMAIN graph.relations : SameTriple(graph.relations[i], r))
  IN [graph |-> [graph EXCEPT !.relations = @ \o newRelations],
      result |-> newRelations, threw |-> FALSE]

\* addObservations without the filter on observations already held.
RECURSIVE addObservationsFromUnfiltered(_, _, _, _)
addObservationsFromUnfiltered(graph, observations, i, results) ==
  IF i > Len(observations) THEN [graph |-> graph, result |-> results, threw |-> FALSE]
  ELSE LET o == observations[i]
           idx == FindEntity(graph.entities, o.entityName)
       IN IF idx = 0 THEN [graph |-> graph, result |-> results, threw |-> TRUE]
          ELSE addObservationsFromUnfiltered(
                 [graph EXCEPT !.entities[idx].observations = @ \o o.contents],
                 observations, i + 1,
                 Append(results, [entityName |-> o.entityName,
                                  addedObservations |-> o.contents]))

RECURSIVE addObservationsFrom(_, _, _, _)
addObservationsFrom(graph, observations, i, results) ==
  IF i > Len(observations) THEN [graph |-> graph, result |-> results, threw |-> FALSE]
  ELSE LET o == observations[i]
           idx == FindEntity(graph.entities, o.entityName)
       IN IF idx = 0 THEN [graph |-> graph, result |-> results, threw |-> TRUE]
          ELSE LET entity == graph.entities[idx]
                   newObservations == SelectSeq(o.contents, LAMBDA content :
                                        ~ Includes(entity.observations, content))
                   g == [graph EXCEPT !.entities[idx].observations = @ \o newObservations]
               IN addObservationsFrom(g, observations, i + 1,
                    Append(results, [entityName |-> o.entityName,
                                     addedObservations |-> newObservations]))

addObservations(graph, observations) == addObservationsFrom(graph, observations, 1, <<>>)

\* deleteEntities without the cascade to `to`.
deleteEntitiesFromOnly(graph, entityNames) ==
  [graph |-> [entities |-> SelectSeq(graph.entities, LAMBDA e :
                             ~ Includes(entityNames, Get(e, "name"))),
              relations |-> SelectSeq(graph.relations, LAMBDA r :
                              ~ Includes(entityNames, Get(r, "from")))],
   result |-> Undefined, threw |-> FALSE]

\* deleteEntities that throws on a name no entity bears.
deleteEntitiesStrict(graph, entityNames) ==
  [graph |-> [entities |-> SelectSeq(graph.entities, LAMBDA e :
                             ~ Includes(entityNames, Get(e, "name"))),
              relations |-> SelectSeq(graph.relations, LAMBDA r :
                              /\ ~ Includes(entityNames, Get(r, "from"))
                              /\ ~ Includes(entityNames, Get(r, "to")))],
   result |-> Undefined,
   threw |-> \E i \in DOMAIN entityNames : FindEntity(graph.entities, entityNames[i]) = 0]

deleteEntities(graph, entityNames) ==
  [graph |-> [entities |-> SelectSeq(graph.entities, LAMBDA e :
                             ~ Includes(entityNames, Get(e, "name"))),
              relations |-> SelectSeq(graph.relations, LAMBDA r :
                              /\ ~ Includes(entityNames, Get(r, "from"))
                              /\ ~ Includes(entityNames, Get(r, "to")))],
   result |-> Undefined, threw |-> FALSE]

\* deleteObservations that throws on a missing entity, as addObservations does.
RECURSIVE deleteObservationsFromStrict(_, _, _)
deleteObservationsFromStrict(graph, deletions, i) ==
  IF i > Len(deletions) THEN [graph |-> graph, result |-> Undefined, threw |-> FALSE]
  ELSE LET d == deletions[i]
           idx == FindEntity(graph.entities, d.entityName)
       IN IF idx = 0 THEN [graph |-> graph, result |-> Undefined, threw |-> TRUE]
          ELSE deleteObservationsFromStrict(
                 [graph EXCEPT !.entities[idx].observations =
                    SelectSeq(@, LAMBDA o : ~ Includes(d.observations, o))],
                 deletions, i + 1)

RECURSIVE deleteObservationsFrom(_, _, _)
deleteObservationsFrom(graph, deletions, i) ==
  IF i > Len(deletions) THEN [graph |-> graph, result |-> Undefined, threw |-> FALSE]
  ELSE LET d == deletions[i]
           idx == FindEntity(graph.entities, d.entityName)
           g == IF idx = 0 THEN graph
                ELSE [graph EXCEPT !.entities[idx].observations =
                        SelectSeq(@, LAMBDA o : ~ Includes(d.observations, o))]
       IN deleteObservationsFrom(g, deletions, i + 1)

deleteObservations(graph, deletions) == deleteObservationsFrom(graph, deletions, 1)

\* deleteRelations that compares from and relationType only.
deleteRelationsIgnoringTo(graph, relations) ==
  [graph |-> [graph EXCEPT !.relations = SelectSeq(@, LAMBDA r :
                ~ \E i \in DOMAIN relations :
                    /\ Get(r, "from") = relations[i].from
                    /\ Get(r, "relationType") = relations[i].relationType)],
   result |-> Undefined, threw |-> FALSE]

deleteRelations(graph, relations) ==
  [graph |-> [graph EXCEPT !.relations = SelectSeq(@, LAMBDA r :
                ~ \E i \in DOMAIN relations : SameTriple(r, relations[i]))],
   result |-> Undefined, threw |-> FALSE]

\* The operation the dispatcher routes a tool name to.
Apply(tool, arg, graph) ==
  CASE tool = "create_entities" -> createEntities(graph, arg)
    [] tool = "create_relations" -> createRelations(graph, arg)
    [] tool = "add_observations" -> addObservations(graph, arg)
    [] tool = "delete_entities" -> deleteEntities(graph, arg)
    [] tool = "delete_observations" -> deleteObservations(graph, arg)
    [] tool = "delete_relations" -> deleteRelations(graph, arg)

\* The mutation tools called with undefined for their argument: the first method
\* call on the argument throws a TypeError; deleteEntities and
\* deleteRelations touch it only inside the filter callback, so they throw
\* only when the list filtered first is not empty, and save otherwise.
ApplyUndefined(tool, graph) ==
  [graph |-> graph, result |-> Undefined,
   threw |-> CASE tool = "delete_entities" ->
                    graph.entities # <<>> \/ graph.relations # <<>>
               [] tool = "delete_relations" -> graph.relations # <<>>
               [] OTHER -> TRUE]

MutationTools == {"create_entities", "create_relations", "add_observations",
                  "delete_entities", "delete_observations", "delete_relations"}

\* ----------------------------------------------------------------- queries
\* Each query maps the loaded graph and its argument to the graph it returns.
readGraph(graph) == graph

\* The relations of graph whose from and to are both names of filteredEntities.
filteredRelations(graph, filteredEntities) ==
  LET filteredEntityNames == {Get(filteredEntities[i], "name") : i \in DOMAIN filteredEntities}
  IN SelectSeq(graph.relations, LAMBDA r :
       Get(r, "from") \in filteredEntityNames /\ Get(r, "to") \in filteredEntityNames)

\* searchNodes that compares the query with the entity name only.
searchNodesByName(graph, query) ==
  LET filteredEntities == SelectSeq(graph.entities, LAMBDA e :
        StringIncludes(toLowerCase(Get(e, "name")), toLowerCase(query)))
  IN [entities |-> filteredEntities, relations |-> filteredRelations(graph, filteredEntities)]

searchNodes(graph, query) ==
  LET filteredEntities == SelectSeq(graph.entities, LAMBDA e :
        \/ StringIncludes(toLowerCase(Get(e, "name")), toLowerCase(query))
        \/ StringIncludes(toLowerCase(Get(e, "entityType")), toLowerCase(query))
        \/ \E i \in DOMAIN Get(e, "observations") :
             StringIncludes(toLowerCase(Get(e, "observations")[i]), toLowerCase(query)))
  IN [entities |-> filteredEntities, relations |-> filteredRelations(graph, filteredEntities)]

openNodes(graph, names) ==
  LET filteredEntities == SelectSeq(graph.entities, LAMBDA e : Includes(names, Get(e, "name")))
  IN [entities |-> filteredEntities, relations |-> filteredRelations(graph, filteredEntities)]

QueryTools == {"read_graph", "search_nodes", "open_nodes"}

Ask(tool, arg, graph) ==
  CASE tool = "read_graph" -> readGraph(graph)
    [] tool = "search_nodes" -> searchNodes(graph, arg)
    [] tool = "open_nodes" -> openNodes(graph, arg)

\* searchNodes and openNodes called with undefined for their argument: it is
\* touched only inside the entity filter's callback, so they throw only when
\* the graph holds an entity and return the empty graph otherwise.
AskUndefined(tool, graph) ==
  [result |-> EmptyGraph, threw |-> graph.entities # <<>>]

Tools == MutationTools \cup QueryTools

\* ------------------------------------------------------------------- state
VARIABLES
  file,        \* the backing file's content, as lines; NoFile when it is missing
  pc,          \* per caller: "idle", "loaded", "done", "failed", "interrupted";
               \* "starting" while the service is not constructed yet
  tool,        \* per caller: the tool name of its call
  arg,         \* per caller: the argument of its call
  loaded,      \* per caller: the graph its loadGraph returned (Undefined: none)
  result,      \* per caller: the value its operation returned, or its load's error
  writes,      \* per caller: file writes made by its call
  repeat,      \* per caller: its call repeats its previous, completed call
  stale,       \* per caller: another caller wrote the file after this call's load
  lastWriter,  \* the caller whose write the file holds (0: none yet)
  ops,         \* calls started so far
  payload,     \* per caller: what its request carries: "arguments" (the object
               \* with the tool's argument), "empty" (the object without it),
               \* "absent" (no object), "args" (an args member); "none" before a call
  http         \* the fetch server's HTTP exchanges so far, in order

vars == <<file, pc, tool, arg, loaded, result, writes, repeat, stale, lastWriter, ops,
          payload, http>>

\* The service was constructed on a path that held no file.
Init ==
  /\ file = <<EmptyObjectLine>>
  /\ pc = [p \in Procs |-> "idle"]
  /\ tool = [p \in Procs |-> "none"]
  /\ arg = [p \in Procs |-> <<>>]
  /\ loaded = [p \in Procs |-> EmptyGraph]
  /\ result = [p \in Procs |-> Undefined]
  /\ writes = [p \in Procs |-> 0]
  /\ repeat = [p \in Procs |-> FALSE]
  /\ stale = [p \in Procs |-> FALSE]
  /\ lastWriter = 0
  /\ ops = 0
  /\ payload = [p \in Procs |-> "none"]
  /\ http = <<>>

\* A caller is free to issue a call.
Free(p) == pc[p] \in {"idle", "done", "failed", "interrupted"}

\* Load that keeps the graph of the caller's previous call instead of reading
\* the file again.
LoadCached(p, t, a, limit) ==
  /\ ops < limit
  /\ ops' = ops + 1
  /\ pc' = [pc EXCEPT ![p] = IF loadError(file) = Undefined THEN "loaded" ELSE "failed"]
  /\ tool' = [tool EXCEPT ![p] = t]
  /\ arg' = [arg EXCEPT ![p] = a]
  /\ loaded' = [loaded EXCEPT ![p] =
                  IF loadError(file) # Undefined THEN Undefined
                  ELSE IF pc[p] = "done" THEN loaded[p] ELSE loadGraph(file)]
  /\ result' = [result EXCEPT ![p] = loadError(file)]
  /\ writes' = [writes EXCEPT ![p] = 0]
  /\ repeat' = [repeat EXCEPT ![p] = pc[p] = "done" /\ tool[p] = t /\ arg[p] = a]
  /\ stale' = [stale EXCEPT ![p] = FALSE]
  /\ payload' = [payload EXCEPT ![p] = "arguments"]
  /\ UNCHANGED <<file, lastWriter, http>>

\* The first step of a call of tool t whose request has the given shape and
\* argument a: loadGraph reads the file; a load that fails ends the call.
LoadWith(p, t, a, shape, limit) ==
  /\ ops < limit
  /\ ops' = ops + 1
  /\ pc' = [pc EXCEPT ![p] = IF loadError(file) = Undefined THEN "loaded" ELSE "failed"]
  /\ tool' = [tool EXCEPT ![p] = t]
  /\ arg' = [arg EXCEPT ![p] = a]
  /\ loaded' = [loaded EXCEPT ![p] =
                  IF loadError(file) = Undefined THEN loadGraph(file) ELSE Undefined]
  /\ result' = [result EXCEPT ![p] = loadError(file)]
  /\ writes' = [writes EXCEPT ![p] = 0]
  /\ repeat' = [repeat EXCEPT ![p] =
                  pc[p] = "done" /\ tool[p] = t /\ payload[p] = shape /\ arg[p] = a]
  /\ stale' = [stale EXCEPT ![p] = FALSE]
  /\ payload' = [payload EXCEPT ![p] = shape]
  /\ UNCHANGED <<file, lastWriter, http>>

\* The first step of a call that carries its argument.
Load(p, t, a, limit) == LoadWith(p, t, a, "arguments", limit)

\* The calls of the six mutation tools, each with an argument drawn from I.
CreateEntities(p, I) ==
  /\ Free(p)
  /\ \E a \in I.entities : Load(p, "create_entities", a, I.maxOps)
CreateRelations(p, I) ==
  /\ Free(p)
  /\ \E a \in I.relations : Load(p, "create_relations", a, I.maxOps)
AddObservations(p, I) ==
  /\ Free(p)
  /\ \E a \in I.observations : Load(p, "add_observations", a, I.maxOps)
DeleteEntities(p, I) ==
  /\ Free(p)
  /\ \E a \in I.entityNames : Load(p, "delete_entities", a, I.maxOps)
DeleteObservations(p, I) ==
  /\ Free(p)
  /\ \E a \in I.deletions : Load(p, "delete_observations", a, I.maxOps)
DeleteRelations(p, I) ==
  /\ Free(p)
  /\ \E a \in I.relations : Load(p, "delete_relations", a, I.maxOps)

\* Outcome computed from a second load made at the write.
OutcomeOnFreshLoad(p) == Apply(tool[p], arg[p], loadGraph(file))

\* What the call of p computes from the graph it loaded.
Outcome(p) ==
  IF payload[p] = "arguments" THEN Apply(tool[p], arg[p], loaded[p])
  ELSE ApplyUndefined(tool[p], loaded[p])

\* Written with the save placed where a throw does not skip it.
WrittenAlways(out, current) == saveGraph(out.graph)

\* The file content the rest of a call leaves when the file holds current:
\* saveGraph's write, or no write when the operation threw.
Written(out, current) == IF out.threw THEN current ELSE saveGraph(out.graph)

\* The handler's second step: compute, saveGraph, return.
Complete(p) ==
  /\ pc[p] = "loaded"
  /\ tool[p] \in MutationTools
  /\ file' = Written(Outcome(p), file)
  /\ pc' = [pc EXCEPT ![p] = IF Outcome(p).threw THEN "failed" ELSE "done"]
  /\ result' = [result EXCEPT ![p] = IF Outcome(p).threw THEN Undefined ELSE Outcome(p).result]
  /\ writes' = [writes EXCEPT ![p] = IF Outcome(p).threw THEN @ ELSE @ + 1]
  /\ stale' = [q \in Procs |->
                 IF q # p /\ pc[q] = "loaded" /\ ~ Outcome(p).threw THEN TRUE ELSE stale[q]]
  /\ lastWriter' = IF Outcome(p).threw THEN lastWriter ELSE p
  /\ UNCHANGED <<tool, arg, loaded, repeat, ops, payload, http>>

\* The call's fiber is interrupted between its load and its write.
Interrupt(p) ==
  /\ pc[p] = "loaded"
  /\ pc' = [pc EXCEPT ![p] = "interrupted"]
  /\ UNCHANGED <<file, tool, arg, loaded, result, writes, repeat, stale, lastWriter, ops,
                 payload, http>>

\* The calls of the three query tools; readGraph takes no argument.
ReadGraph(p, I) ==
  /\ Free(p)
  /\ Load(p, "read_graph", <<>>, I.maxOps)
SearchNodes(p, I) ==
  /\ Free(p)
  /\ \E q \in I.queries : Load(p, "search_nodes", q, I.maxOps)
OpenNodes(p, I) ==
  /\ Free(p)
  /\ \E a \in I.names : Load(p, "open_nodes", a, I.maxOps)

\* A query that saves the graph it loaded before it returns.
SavedBack(graph, current) == saveGraph(graph)

\* The file content the rest of a query leaves when the file holds current:
\* a query has no saveGraph call.
Unwritten(graph, current) == current

\* What the query of p computes from the graph it loaded.
Reply(p) ==
  IF payload[p] = "arguments"
  THEN [result |-> Ask(tool[p], arg[p], loaded[p]), threw |-> FALSE]
  ELSE AskUndefined(tool[p], loaded[p])

\* A query's second step: filter the loaded graph and return.
Answer(p) ==
  /\ pc[p] = "loaded"
  /\ tool[p] \in QueryTools
  /\ file' = Unwritten(loaded[p], file)
  /\ pc' = [pc EXCEPT ![p] = IF Reply(p).threw THEN "failed" ELSE "done"]
  /\ result' = [result EXCEPT ![p] = IF Reply(p).threw THEN Undefined ELSE Reply(p).result]
  /\ UNCHANGED <<tool, arg, loaded, writes, repeat, stale, lastWriter, ops, payload, http>>

Step(p, I) ==
  \/ CreateEntities(p, I)
  \/ CreateRelations(p, I)
  \/ AddObservations(p, I)
  \/ DeleteEntities(p, I)
  \/ DeleteObservations(p, I)
  \/ DeleteRelations(p, I)
  \/ Complete(p)
  \/ Interrupt(p)

\* One caller, each call issued after the previous one returned.
Next == Step(1, Narrow)
Spec == Init /\ [][Next]_vars

\* One caller, with longer observation lists.
NextObs == Step(1, Wide)
SpecObs == Init /\ [][NextObs]_vars

\* Two callers whose calls overlap.
NextRace == \E p \in Procs : Step(p, Single)
SpecRace == Init /\ [][NextRace]_vars

\* One caller that fills the graph and queries it.
StepQuery(p, I) ==
  \/ CreateEntities(p, I)
  \/ CreateRelations(p, I)
  \/ ReadGraph(p, I)
  \/ SearchNodes(p, I)
  \/ OpenNodes(p, I)
  \/ Complete(p)
  \/ Answer(p)
  \/ Interrupt(p)

NextQuery == StepQuery(1, Lookup)
SpecQuery == Init /\ [][NextQuery]_vars

\* Two callers whose calls overlap and whose create batches hold no duplicate.
StepDistinct(p, I) ==
  \/ CreateEntities(p, I)
  \/ CreateRelations(p, I)
  \/ DeleteEntities(p, I)
  \/ Complete(p)
  \/ Interrupt(p)

NextDistinct == \E p \in Procs : StepDistinct(p, Distinct)
SpecDistinct == Init /\ [][NextDistinct]_vars

\* A call of tool t is the scenario's next one, issued once the previous one
\* completed; after the scenario any call may follow.
OnScript(p, t) ==
  IF ops >= Len(Script) THEN TRUE
  ELSE Script[ops + 1] = t /\ (ops = 0 \/ pc[p] = "done")

\* One caller that runs the scenario, then further calls.
StepScenario(p, I) ==
  \/ OnScript(p, "create_entities") /\ CreateEntities(p, I)
  \/ OnScript(p, "create_relations") /\ CreateRelations(p, I)
  \/ OnScript(p, "add_observations") /\ AddObservations(p, I)
  \/ OnScript(p, "delete_entities") /\ DeleteEntities(p, I)
  \/ OnScript(p, "delete_observations") /\ DeleteObservations(p, I)
  \/ OnScript(p, "delete_relations") /\ DeleteRelations(p, I)
  \/ OnScript(p, "read_graph") /\ ReadGraph(p, I)
  \/ Complete(p)
  \/ Answer(p)
  \/ Interrupt(p)

NextScenario == StepScenario(1, Scenario)
SpecScenario == Init /\ [][NextScenario]_vars

\* encode: the response envelope of a value.
encode(text) == [content |-> <<[type |-> "text", text |-> text]>>]

\* What the handler's promise settles with once the call of p has ended: the
\* envelope of the operation's value (a fixed message for the delete tools),
\* or a rejection carrying the error, which nothing in the handler catches.
Response(p) ==
  IF pc[p] = "done"
  THEN encode(CASE tool[p] = "delete_entities" -> "Entities deleted successfully"
                [] tool[p] = "delete_observations" -> "Observations deleted successfully"
                [] tool[p] = "delete_relations" -> "Relations deleted successfully"
                [] OTHER -> result[p])
  ELSE [rejected |-> result[p]]

\* A request without the arguments object: the handler fails at once.
NoArguments(p, I) ==
  /\ Free(p)
  /\ ops < I.maxOps
  /\ \E t \in Tools :
       /\ tool' = [tool EXCEPT ![p] = t]
       /\ repeat' = [repeat EXCEPT ![p] =
                       pc[p] = "failed" /\ tool[p] = t /\ payload[p] = "absent"]
  /\ ops' = ops + 1
  /\ pc' = [pc EXCEPT ![p] = "failed"]
  /\ arg' = [arg EXCEPT ![p] = <<>>]
  /\ payload' = [payload EXCEPT ![p] = "absent"]
  /\ loaded' = [loaded EXCEPT ![p] = Undefined]
  /\ result' = [result EXCEPT ![p] = "No arguments provided for tool"]
  /\ writes' = [writes EXCEPT ![p] = 0]
  /\ stale' = [stale EXCEPT ![p] = FALSE]
  /\ UNCHANGED <<file, lastWriter, http>>

\* A request whose arguments object lacks the tool's argument: the handler
\* passes undefined to the operation, which starts with its load.
MissingArgument(p, I) ==
  /\ Free(p)
  /\ \E t \in Tools \ {"read_graph"} : LoadWith(p, t, <<>>, "empty", I.maxOps)

\* One caller whose requests may lack the arguments or the argument.
NextCalls ==
  \/ Step(1, Single)
  \/ NoArguments(1, Single)
  \/ MissingArgument(1, Single)
  \/ Answer(1)
SpecCalls == Init /\ [][NextCalls]_vars

\* Contents another program leaves in the file: a stored entity followed by
\* a malformed line, by a record of another type, or by a blank line and a relation.
ExternalContents ==
  LET e == JSONstringify([type |-> "entity", name |-> "a", entityType |-> "t",
                          observations |-> <<>>])
      r == JSONstringify([type |-> "relation", from |-> "a", to |-> "a",
                          relationType |-> "r"])
      n == JSONstringify([type |-> "note", name |-> "b"])
  IN {<<e, MalformedLine>>, <<e, n>>, <<e, BlankLine, r>>}

\* Between two calls the file is removed.
RemoveFile ==
  /\ \A p \in Procs : Free(p)
  /\ file # NoFile
  /\ file' = NoFile
  /\ lastWriter' = 0
  /\ UNCHANGED <<pc, tool, arg, loaded, result, writes, repeat, stale, ops, payload, http>>

\* Between two calls the file is rewritten by another program.
EditFile ==
  /\ \A p \in Procs : Free(p)
  /\ \E data \in ExternalContents : data # file /\ file' = data
  /\ lastWriter' = 0
  /\ UNCHANGED <<pc, tool, arg, loaded, result, writes, repeat, stale, ops, payload, http>>

\* One caller whose file is changed from outside between its calls.
NextEnv ==
  \/ Step(1, Single)
  \/ ReadGraph(1, Single)
  \/ Answer(1)
  \/ RemoveFile
  \/ EditFile
SpecEnv == Init /\ [][NextEnv]_vars

\* The file the service's construction leaves on a path that held existing:
\* a missing file is created with the text "{}", a present one is not touched.
Construct(existing) == IF existing = NoFile THEN <<EmptyObjectLine>> ELSE existing

\* What the path may hold before the service is constructed.
StartContents == {NoFile, <<BlankLine>>} \cup ExternalContents

InitStart ==
  /\ file \in StartContents
  /\ pc = [p \in Procs |-> "starting"]
  /\ tool = [p \in Procs |-> "none"]
  /\ arg = [p \in Procs |-> <<>>]
  /\ loaded = [p \in Procs |-> EmptyGraph]
  /\ result = [p \in Procs |-> Undefined]
  /\ writes = [p \in Procs |-> 0]
  /\ repeat = [p \in Procs |-> FALSE]
  /\ stale = [p \in Procs |-> FALSE]
  /\ lastWriter = 0
  /\ ops = 0
  /\ payload = [p \in Procs |-> "none"]
  /\ http = <<>>

\* The construction of KnowledgeGraphManager; callers are served after it.
Start ==
  /\ \A p \in Procs : pc[p] = "starting"
  /\ file' = Construct(file)
  /\ pc' = [p \in Procs |-> "idle"]
  /\ UNCHANGED <<tool, arg, loaded, result, writes, repeat, stale, lastWriter, ops,
                 payload, http>>

\* The service constructed on any path content, then one caller.
NextStart ==
  \/ Start
  \/ Step(1, Single)
  \/ ReadGraph(1, Single)
  \/ Answer(1)
SpecStart == InitStart /\ [][NextStart]_vars

\* ------------------------------------------------------------ fetch server
\* The statuses robots.txt answers with, and the url member of a request.
RobotsStatuses == {200, 401, 403, 404, 500}
FetchUrls == {"https://site/page", Undefined}
RobotsTxt == "https://site/robots.txt"

ToolError(text) == [content |-> <<[type |-> "text", text |-> text]>>, isError |-> TRUE]
RpcSuccess(text) == [content |-> <<[type |-> "text", text |-> text]>>]

\* isAllowedToFetchUrl once robots.txt answered with status, its rules
\* disallowing the URL for the user agent or not. The generator returns the
\* Effect it built (return, not yield*): the call itself succeeds, with that
\* Effect as its value, and the handler drops the value without running it.
isAllowedToFetchUrl(status, disallowed) ==
  [failed |-> FALSE,
   value |-> IF status = 401 \/ status = 403 THEN "Effect.fail"
             ELSE IF status >= 400 /\ status < 500 THEN "Effect.succeed"
             ELSE IF disallowed THEN "Effect.fail"
             ELSE "Effect.succeed"]

\* The fetch handler up to its first request: it reads the args member of the
\* request's params and the url in it, answers with an error when either is
\* missing, and requests robots.txt otherwise.
Fetch(p) ==
  /\ Free(p)
  /\ ops < MaxFetchOps
  /\ \E shape \in {"args", "arguments", "absent"}, url \in FetchUrls :
       LET ready == shape = "args" /\ url # Undefined
       IN /\ payload' = [payload EXCEPT ![p] = shape]
          /\ arg' = [arg EXCEPT ![p] = [url |-> url]]
          /\ pc' = [pc EXCEPT ![p] = IF ready THEN "robots" ELSE "done"]
          /\ result' = [result EXCEPT ![p] =
                          IF ready THEN Undefined
                          ELSE IF shape # "args" THEN ToolError("No arguments provided")
                          ELSE ToolError("URL is required")]
  /\ tool' = [tool EXCEPT ![p] = "fetch"]
  /\ ops' = ops + 1
  /\ UNCHANGED <<file, loaded, writes, repeat, stale, lastWriter, http>>

\* robots.txt is answered: isAllowedToFetchUrl ends and, unless it failed,
\* fetchUrl requests the target.
Robots(p) ==
  /\ pc[p] = "robots"
  /\ \E status \in RobotsStatuses, disallowed \in BOOLEAN :
       /\ http' = Append(http, [call |-> ops, url |-> RobotsTxt, status |-> status,
                                disallowed |-> disallowed])
       /\ pc' = [pc EXCEPT ![p] =
                   IF isAllowedToFetchUrl(status, disallowed).failed THEN "done" ELSE "target"]
       /\ result' = [result EXCEPT ![p] =
                       IF isAllowedToFetchUrl(status, disallowed).failed
                       THEN ToolError("autonomous fetching is not allowed") ELSE Undefined]
  /\ UNCHANGED <<file, tool, arg, loaded, writes, repeat, stale, lastWriter, ops, payload>>

\* The target is answered: the handler returns its content.
Target(p) ==
  /\ pc[p] = "target"
  /\ http' = Append(http, [call |-> ops, url |-> arg[p].url, status |-> 200,
                           disallowed |-> FALSE])
  /\ pc' = [pc EXCEPT ![p] = "done"]
  /\ result' = [result EXCEPT ![p] = RpcSuccess("Contents of the page")]
  /\ UNCHANGED <<file, tool, arg, loaded, writes, repeat, stale, lastWriter, ops, payload>>

\* One caller of the fetch tool.
NextFetch ==
  \/ Fetch(1)
  \/ Robots(1)
  \/ Target(1)
SpecFetch == Init /\ [][NextFetch]_vars

\* ------------------------------------------------------------------ claims
\* The graph the backing file holds.
Durable == loadGraph(file)

NameOf(e) == Get(e, "name")
NamesIn(graph) == {NameOf(graph.entities[i]) : i \in DOMAIN graph.entities}

\* C1: in every durable graph no two entities share a name.
C1_UniqueEntityNames ==
  \A i, j \in DOMAIN Durable.entities :
    i # j => NameOf(Durable.entities[i]) # NameOf(Durable.entities[j])

\* C2: in every durable graph no two relations share (from, to, relationType).
C2_UniqueRelationTriples ==
  \A i, j \in DOMAIN Durable.relations :
    i # j => ~ SameTriple(Durable.relations[i], Durable.relations[j])

\* C3: in every durable graph no entity's observation list repeats a string.
C3_NoDuplicateObservations ==
  \A k \in DOMAIN Durable.entities :
    LET obs == Get(Durable.entities[k], "observations")
    IN \A i, j \in DOMAIN obs : i # j => obs[i] # obs[j]

\* C4: while a deleteEntities call is between its load and its write the file
\* still holds the graph it loaded, and once it has completed the durable graph
\* holds no entity named in the call and no relation from or to such a name,
\* after exactly one write.
C4_DeleteEntitiesCascade ==
  \A p \in Procs :
    tool[p] = "delete_entities" =>
      /\ pc[p] = "loaded" => Durable = loaded[p] /\ writes[p] = 0
      /\ pc[p] = "done" =>
           /\ writes[p] = 1
           /\ \A i \in DOMAIN Durable.entities :
                ~ Includes(arg[p], NameOf(Durable.entities[i]))
           /\ \A i \in DOMAIN Durable.relations :
                /\ ~ Includes(arg[p], Get(Durable.relations[i], "from"))
                /\ ~ Includes(arg[p], Get(Durable.relations[i], "to"))

\* A completed deleteEntities call that named an entity of the loaded graph which
\* a loaded relation pointed to.
C4_Witness ==
  \E p \in Procs :
    /\ pc[p] = "done" /\ tool[p] = "delete_entities"
    /\ \E i \in DOMAIN loaded[p].entities, j \in DOMAIN loaded[p].relations :
         /\ Includes(arg[p], NameOf(loaded[p].entities[i]))
         /\ Get(loaded[p].relations[j], "to") = NameOf(loaded[p].entities[i])
         /\ Get(loaded[p].relations[j], "from") # NameOf(loaded[p].entities[i])
         /\ ~ Includes(arg[p], Get(loaded[p].relations[j], "from"))

\* Some entry of the addObservations batch arg names no entity of graph.
NamesAbsentEntity(graph, batch) ==
  \E i \in DOMAIN batch : batch[i].entityName \notin NamesIn(graph)

\* C5: an addObservations call with an entry naming an absent entity ends in
\* failure, and the step that ends it leaves the file as it was, unwritten.
C5_AddObservationsAllOrNothing ==
  [][\A p \in Procs :
       ( /\ pc[p] = "loaded" /\ pc'[p] \in {"done", "failed"}
         /\ tool[p] = "add_observations"
         /\ NamesAbsentEntity(loaded[p], arg[p]) )
       => (pc'[p] = "failed" /\ file' = file /\ writes'[p] = 0)]_vars

\* A failed addObservations call whose first entry named an existing entity and
\* carried a new observation, and whose second entry named an absent entity.
C5_Witness ==
  \E p \in Procs :
    /\ pc[p] = "failed" /\ tool[p] = "add_observations" /\ Len(arg[p]) = 2
    /\ arg[p][2].entityName \notin NamesIn(loaded[p])
    /\ LET idx == FindEntity(loaded[p].entities, arg[p][1].entityName)
       IN /\ idx # 0
          /\ \E c \in DOMAIN arg[p][1].contents :
               ~ Includes(loaded[p].entities[idx].observations, arg[p][1].contents[c])

\* Callers p and q raced: p loaded, q then wrote, p wrote last, both returned.
Raced(p, q) ==
  /\ p # q
  /\ pc[p] = "done" /\ pc[q] = "done"
  /\ stale[p] /\ lastWriter = p

\* C6: after a race the file is exactly what the last writer computed from its
\* own load (so nothing of the other caller's write survives in it), and both
\* calls returned their success result after one write each.
C6_LastWriterWins ==
  \A p, q \in Procs :
    Raced(p, q) =>
      /\ file = saveGraph(Apply(tool[p], arg[p], loaded[p]).graph)
      /\ result[p] = Apply(tool[p], arg[p], loaded[p]).result
      /\ result[q] = Apply(tool[q], arg[q], loaded[q]).result
      /\ writes[p] = 1 /\ writes[q] = 1

\* A race of two createEntities calls that each added an entity: the one added by
\* the first writer is gone from the durable graph.
C6_Witness ==
  \E p, q \in Procs :
    /\ Raced(p, q)
    /\ tool[p] = "create_entities" /\ tool[q] = "create_entities"
    /\ Len(result[p]) = 1 /\ Len(result[q]) = 1
    /\ result[p][1].name \in NamesIn(Durable)
    /\ result[q][1].name \notin NamesIn(Durable)

\* C7: a call writes the file at most once, in the step that completes it; its
\* load, its failure and its interruption leave the file as it was.
C7_SingleFinalWrite ==
  [][/\ \A p \in Procs : writes'[p] <= 1
     /\ file' # file =>
          \E p \in Procs : /\ pc[p] = "loaded" /\ pc'[p] = "done"
                           /\ writes[p] = 0 /\ writes'[p] = 1
     /\ \A p \in Procs :
          /\ (pc[p] # "loaded" /\ pc'[p] = "loaded") => (file' = file /\ writes'[p] = 0)
          /\ (pc[p] = "loaded" /\ pc'[p] \in {"failed", "interrupted"})
               => (file' = file /\ writes'[p] = 0)]_vars

\* One call was interrupted after its load and another failed, on a store that
\* had been written before.
C7_Witness ==
  \E p, q \in Procs :
    /\ pc[p] = "interrupted" /\ pc[q] = "failed" /\ lastWriter # 0
    /\ Durable.entities # <<>>

\* The Entity fields of a stored entity, and the Relation fields of a stored relation.
EntityFields(e) ==
  [name |-> Get(e, "name"), entityType |-> Get(e, "entityType"),
   observations |-> Get(e, "observations")]
RelationFields(r) ==
  [from |-> Get(r, "from"), to |-> Get(r, "to"), relationType |-> Get(r, "relationType")]

\* The items of after that follow the Len(before) first ones.
Appended(before, after) == SubSeq(after, Len(before) + 1, Len(after))

\* C8: createEntities never fails; it returns the candidates whose name the
\* loaded graph lacks, the durable entities are the loaded ones, unchanged,
\* followed by exactly those candidates.
C8_CreateEntitiesAddsOnlyNew ==
  \A p \in Procs :
    tool[p] = "create_entities" =>
      /\ pc[p] # "failed"
      /\ pc[p] = "done" =>
           LET fresh == SelectSeq(arg[p], LAMBDA e : e.name \notin NamesIn(loaded[p]))
               added == Appended(loaded[p].entities, Durable.entities)
           IN /\ result[p] = fresh
              /\ Len(Durable.entities) = Len(loaded[p].entities) + Len(fresh)
              /\ SubSeq(Durable.entities, 1, Len(loaded[p].entities)) = loaded[p].entities
              /\ [i \in DOMAIN added |-> EntityFields(added[i])] = fresh

\* A completed createEntities call with one new candidate and one candidate that
\* clashes with a stored entity holding other observations.
C8_Witness ==
  \E p \in Procs :
    /\ pc[p] = "done" /\ tool[p] = "create_entities"
    /\ Len(arg[p]) = 2 /\ Len(result[p]) = 1
    /\ \E k \in DOMAIN arg[p], i \in DOMAIN loaded[p].entities :
         /\ NameOf(loaded[p].entities[i]) = arg[p][k].name
         /\ Get(loaded[p].entities[i], "observations") # arg[p][k].observations

\* C9: after createEntities([e]) ran twice in a row, the second call returned no
\* added entity and the durable graph holds exactly one entity named e.name.
C9_CreateEntitiesTwice ==
  \A p \in Procs :
    (pc[p] = "done" /\ tool[p] = "create_entities" /\ repeat[p] /\ Len(arg[p]) = 1) =>
      /\ result[p] = <<>>
      /\ Cardinality({i \in DOMAIN Durable.entities :
                        NameOf(Durable.entities[i]) = arg[p][1].name}) = 1

\* C10: createRelations never fails; it returns the candidates whose triple the
\* loaded graph lacks, the durable relations are the loaded ones followed by
\* exactly those, and when it returns none the decoded graph is the loaded one.
C10_CreateRelationsAddsOnlyNew ==
  \A p \in Procs :
    tool[p] = "create_relations" =>
      /\ pc[p] # "failed"
      /\ pc[p] = "done" =>
           LET fresh == SelectSeq(arg[p], LAMBDA r :
                          ~ \E i \in DOMAIN loaded[p].relations :
                              RelationFields(loaded[p].relations[i]) = r)
               added == Appended(loaded[p].relations, Durable.relations)
           IN /\ result[p] = fresh
              /\ Len(Durable.relations) = Len(loaded[p].relations) + Len(fresh)
              /\ SubSeq(Durable.relations, 1, Len(loaded[p].relations)) = loaded[p].relations
              /\ [i \in DOMAIN added |-> RelationFields(added[i])] = fresh
              /\ fresh = <<>> => Durable = loaded[p]

\* A completed createRelations call whose two distinct candidates were both stored
\* already.
C10_Witness ==
  \E p \in Procs :
    /\ pc[p] = "done" /\ tool[p] = "create_relations"
    /\ Len(arg[p]) = 2 /\ arg[p][1] # arg[p][2] /\ result[p] = <<>>

\* The observations the first k items of an addObservations result added to
\* the entity named n, in order.
RECURSIVE AddedTo(_, _, _)
AddedTo(res, n, k) ==
  IF k = 0 THEN <<>>
  ELSE AddedTo(res, n, k - 1) \o
       (IF res[k].entityName = n THEN res[k].addedObservations ELSE <<>>)

\* Entity k of graph is the one a lookup by its name finds.
FoundByName(graph, k) == FindEntity(graph.entities, NameOf(graph.entities[k])) = k

\* C11: an addObservations call whose entries all name stored entities completes;
\* its result has one item per entry, naming the entry's entity and listing the
\* entry's contents the entity did not hold yet, in the order given; each
\* entity ends with its old observations followed by what its entries added.
C11_AddObservationsAppends ==
  \A p \in Procs :
    (tool[p] = "add_observations" /\ pc[p] \in {"done", "failed"}
       /\ ~ NamesAbsentEntity(loaded[p], arg[p])) =>
      /\ pc[p] = "done"
      /\ Len(result[p]) = Len(arg[p])
      /\ \A i \in DOMAIN arg[p] :
           LET n == arg[p][i].entityName
               old == loaded[p].entities[FindEntity(loaded[p].entities, n)].observations
               held == old \o AddedTo(result[p], n, i - 1)
           IN /\ result[p][i].entityName = n
              /\ result[p][i].addedObservations =
                   SelectSeq(arg[p][i].contents, LAMBDA c : ~ Includes(held, c))
      /\ Len(Durable.entities) = Len(loaded[p].entities)
      /\ \A k \in DOMAIN loaded[p].entities :
           Durable.entities[k] =
             IF FoundByName(loaded[p], k)
             THEN [loaded[p].entities[k] EXCEPT !.observations =
                     @ \o AddedTo(result[p], NameOf(loaded[p].entities[k]), Len(result[p]))]
             ELSE loaded[p].entities[k]

\* A completed addObservations call of two entries for one entity: the first
\* added an observation, the second carried two and added only one of them.
C11_Witness ==
  \E p \in Procs :
    /\ pc[p] = "done" /\ tool[p] = "add_observations" /\ Len(arg[p]) = 2
    /\ result[p][1].addedObservations # <<>>
    /\ Len(arg[p][2].contents) = 2
    /\ Len(result[p][2].addedObservations) = 1

\* C12: deleteEntities never fails; it keeps exactly the entities whose name is
\* not listed, each unchanged, and a call that repeats the previous one leaves
\* the durable graph and the file as that one left them.
C12_DeleteEntitiesIdempotent ==
  \A p \in Procs :
    tool[p] = "delete_entities" =>
      /\ pc[p] # "failed"
      /\ pc[p] = "done" =>
           /\ Durable.entities = SelectSeq(loaded[p].entities, LAMBDA e :
                                   ~ Includes(arg[p], NameOf(e)))
           /\ repeat[p] => (Durable = loaded[p] /\ file = saveGraph(loaded[p]))

\* deleteEntities ran twice in a row with a name list that holds a name no
\* entity bears any more, beside an entity that stays.
C12_Witness ==
  \E p \in Procs :
    /\ pc[p] = "done" /\ tool[p] = "delete_entities" /\ repeat[p]
    /\ arg[p] # <<>>
    /\ \A i \in DOMAIN arg[p] : arg[p][i] \notin NamesIn(loaded[p])
    /\ Durable.entities # <<>>

\* The strings the entries of a deleteObservations batch list for entity n.
Removed(batch, n) ==
  UNION {{batch[i].observations[j] : j \in DOMAIN batch[i].observations} :
           i \in {i \in DOMAIN batch : batch[i].entityName = n}}

\* C13: deleteObservations never fails; entries naming no entity change nothing;
\* each entity found loses exactly the strings its entries list and keeps the
\* others in their order; the result is persisted.
C13_DeleteObservationsSkipsMissing ==
  \A p \in Procs :
    tool[p] = "delete_observations" =>
      /\ pc[p] # "failed"
      /\ pc[p] = "done" =>
           /\ writes[p] = 1
           /\ Len(Durable.entities) = Len(loaded[p].entities)
           /\ \A k \in DOMAIN loaded[p].entities :
                Durable.entities[k] =
                  IF FoundByName(loaded[p], k)
                  THEN [loaded[p].entities[k] EXCEPT !.observations =
                          SelectSeq(@, LAMBDA o :
                            o \notin Removed(arg[p], NameOf(loaded[p].entities[k])))]
                  ELSE loaded[p].entities[k]

\* A completed deleteObservations call whose first entry named no entity and
\* whose second entry removed one of the two observations of a stored entity.
C13_Witness ==
  \E p \in Procs :
    /\ pc[p] = "done" /\ tool[p] = "delete_observations" /\ Len(arg[p]) = 2
    /\ arg[p][1].entityName \notin NamesIn(loaded[p])
    /\ LET idx == FindEntity(loaded[p].entities, arg[p][2].entityName)
       IN /\ idx # 0
          /\ Len(loaded[p].entities[idx].observations) = 2
          /\ Len(Durable.entities[idx].observations) = 1

\* C14: deleteRelations never fails; it keeps exactly the relations that differ
\* from every candidate in from, to or relationType, and leaves the entities.
C14_DeleteRelationsExactMatch ==
  \A p \in Procs :
    tool[p] = "delete_relations" =>
      /\ pc[p] # "failed"
      /\ pc[p] = "done" =>
           /\ Durable.relations = SelectSeq(loaded[p].relations, LAMBDA r :
                                    ~ Includes(arg[p], RelationFields(r)))
           /\ Durable.entities = loaded[p].entities

\* A completed deleteRelations call that removed one relation, kept one that
\* shares from and relationType with a candidate, and had a candidate matching none.
C14_Witness ==
  \E p \in Procs :
    /\ pc[p] = "done" /\ tool[p] = "delete_relations"
    /\ Len(loaded[p].relations) = 2 /\ Len(Durable.relations) = 1
    /\ \E i \in DOMAIN arg[p] :
         /\ arg[p][i].from = Get(Durable.relations[1], "from")
         /\ arg[p][i].to # Get(Durable.relations[1], "to")
    /\ \E i \in DOMAIN arg[p] :
         \A j \in DOMAIN loaded[p].relations :
           RelationFields(loaded[p].relations[j]) # arg[p][i]

\* C15: a readGraph, searchNodes or openNodes call loads the file afresh and
\* never writes: each of its steps leaves the file's content as it was, its
\* load returns the graph the file holds, and readGraph returns that graph.
C15_QueriesNeverWrite ==
  [][\A p \in Procs :
       (tool'[p] \in QueryTools /\ pc'[p] # pc[p]) =>
         /\ file' = file
         /\ writes'[p] = 0
         /\ pc'[p] = "loaded" => loaded'[p] = loadGraph(file)
         /\ (pc'[p] = "done" /\ tool'[p] = "read_graph") => result'[p] = loadGraph(file)]_vars

\* A query returned entities from a file that earlier calls had written.
C15_Witness ==
  \E p \in Procs :
    /\ pc[p] = "done" /\ tool[p] \in QueryTools
    /\ lastWriter # 0
    /\ result[p].entities # <<>>

\* The query matches the text s, whatever the case of either.
Matches(query, s) ==
  \E pre, post \in BSeq({"a", "b", "l", "o", "t"}, 2) :
    toLowerCase(s) = pre \o toLowerCase(query) \o post

\* C16: searchNodes returns exactly the loaded entities whose name, entityType
\* or some observation contains the query, case ignored; openNodes returns
\* exactly the loaded entities whose name is listed; both return exactly the
\* loaded relations whose from and to are names of returned entities.
C16_QueryResults ==
  \A p \in Procs :
    (pc[p] = "done" /\ tool[p] \in {"search_nodes", "open_nodes"}) =>
      /\ tool[p] = "open_nodes" =>
           result[p].entities = SelectSeq(loaded[p].entities, LAMBDA e :
                                  Includes(arg[p], NameOf(e)))
      /\ tool[p] = "search_nodes" =>
           result[p].entities = SelectSeq(loaded[p].entities, LAMBDA e :
                                  \/ Matches(arg[p], Get(e, "name"))
                                  \/ Matches(arg[p], Get(e, "entityType"))
                                  \/ \E i \in DOMAIN Get(e, "observations") :
                                       Matches(arg[p], Get(e, "observations")[i]))
      /\ result[p].relations = SelectSeq(loaded[p].relations, LAMBDA r :
                                 /\ Get(r, "from") \in NamesIn(result[p])
                                 /\ Get(r, "to") \in NamesIn(result[p]))

\* A search matched one entity through its observation only, left another
\* entity out, kept one relation and dropped one.
C16_Witness ==
  \E p \in Procs :
    /\ pc[p] = "done" /\ tool[p] = "search_nodes" /\ arg[p] = "la"
    /\ Len(result[p].entities) = 1 /\ Len(loaded[p].entities) = 2
    /\ Len(result[p].relations) = 1 /\ Len(loaded[p].relations) = 2

\* C17 as stated: searchNodes("") returns every entity and every relation of
\* the graph.
C17_EmptyQueryReturnsAll ==
  \A p \in Procs :
    (pc[p] = "done" /\ tool[p] = "search_nodes" /\ arg[p] = "") =>
      /\ result[p].entities = loaded[p].entities
      /\ result[p].relations = loaded[p].relations

\* C17: searchNodes("") returns every entity of the graph and every relation
\* whose from and to both name an entity of the graph.
C17_EmptyQueryReturnsInduced ==
  \A p \in Procs :
    (pc[p] = "done" /\ tool[p] = "search_nodes" /\ arg[p] = "") =>
      /\ result[p].entities = loaded[p].entities
      /\ result[p].relations = SelectSeq(loaded[p].relations, LAMBDA r :
                                 /\ Get(r, "from") \in NamesIn(loaded[p])
                                 /\ Get(r, "to") \in NamesIn(loaded[p]))

\* searchNodes("") returned an entity and a relation of a graph that holds
\* another relation, one with an endpoint naming no entity.
C17_Witness ==
  \E p \in Procs :
    /\ pc[p] = "done" /\ tool[p] = "search_nodes" /\ arg[p] = ""
    /\ result[p].entities # <<>>
    /\ Len(result[p].relations) = 1 /\ Len(loaded[p].relations) = 2

\* The entities and the relations of a graph, as sets.
EntitySet(graph) == {graph.entities[i] : i \in DOMAIN graph.entities}
RelationSet(graph) == {graph.relations[i] : i \in DOMAIN graph.relations}

\* No two entities of graph share a name, no two relations a triple.
UniqueKeys(graph) ==
  /\ \A i, j \in DOMAIN graph.entities :
       NameOf(graph.entities[i]) = NameOf(graph.entities[j]) => i = j
  /\ \A i, j \in DOMAIN graph.relations :
       SameTriple(graph.relations[i], graph.relations[j]) => i = j

\* C18: whenever an operation is about to save a graph with unique entity names
\* and unique relation triples, loading the content saveGraph writes for it
\* yields the same set of entities and the same set of relations, every
\* entity and relation with the same fields and values.
C18_RoundTrip ==
  \A p \in Procs :
    (pc[p] = "loaded" /\ tool[p] \in MutationTools /\ UniqueKeys(Outcome(p).graph)) =>
      LET g == Outcome(p).graph
          back == loadGraph(saveGraph(g))
      IN /\ EntitySet(back) = EntitySet(g)
         /\ RelationSet(back) = RelationSet(g)

\* The line is not blank and is neither an entity record nor a relation record.
Unreadable(line) ==
  \/ line.form = "malformed"
  \/ line.form = "object" /\ Get(JSONparse(line), "type") \notin {"entity", "relation"}

\* C19: no load returns a graph from a file that holds a non-blank line which
\* is malformed or whose discriminator is neither entity nor relation: a call
\* past its load has read no such line.
C19_UnreadableLineFailsLoad ==
  \A p \in Procs :
    pc[p] = "loaded" => ~ \E i \in DOMAIN file : Unreadable(file[i])

\* C20: no call fails because the file is missing at its load.
C20_MissingFileLoadsEmpty ==
  \A p \in Procs : ~ (pc[p] = "failed" /\ result[p] = "ENOENT")

\* C21: the construction of the service on a path that holds no file leaves an
\* empty file there (no record, empty text), which loads as the empty graph;
\* on a path that holds a file it leaves the content untouched.
C21_StartCreatesEmptyFile ==
  [][(\A p \in Procs : pc[p] = "starting" /\ pc'[p] = "idle") =>
       /\ file = NoFile =>
            (file' = <<BlankLine>> /\ loadError(file') = Undefined
               /\ loadGraph(file') = EmptyGraph)
       /\ file # NoFile => file' = file]_vars

\* C22: a call is a load step that leaves the file alone, then a step that
\* computes, persists (mutations only) and returns; the graph it works on,
\* what it writes and what it returns are determined by its argument and by
\* the file's content at its load, whatever earlier calls loaded or wrote.
C22_NoStateBetweenCalls ==
  [][\A p \in Procs :
       /\ (Free(p) /\ pc'[p] # pc[p]) =>
            /\ file' = file
            /\ pc'[p] = (IF loadError(file) = Undefined THEN "loaded" ELSE "failed")
            /\ pc'[p] = "loaded" => loaded'[p] = loadGraph(file)
       /\ (pc[p] = "loaded" /\ pc'[p] \in {"done", "failed"} /\ tool[p] \in MutationTools) =>
            LET out == Apply(tool[p], arg[p], loadGraph(file))
            IN /\ pc'[p] = (IF out.threw THEN "failed" ELSE "done")
               /\ file' = (IF out.threw THEN file ELSE saveGraph(out.graph))
               /\ ~ out.threw => result'[p] = out.result
       /\ (pc[p] = "loaded" /\ pc'[p] \in {"done", "failed"} /\ tool[p] \in QueryTools) =>
            /\ file' = file
            /\ pc'[p] = "done"
            /\ result'[p] = Ask(tool[p], arg[p], loadGraph(file))]_vars

\* A createEntities call that repeats the caller's previous, completed call
\* added its entity again: the file was rewritten between the two calls and
\* the second call worked on the new content.
C22_Witness ==
  \E p \in Procs :
    /\ pc[p] = "done" /\ tool[p] = "create_entities" /\ repeat[p]
    /\ arg[p] # <<>> /\ result[p] # <<>>

\* C26: createRelations never fails and persists each candidate, also one whose
\* from or to names no entity; readGraph returns every loaded relation, such
\* a one included; searchNodes and openNodes return no relation with an
\* endpoint that is not the name of a returned entity.
C26_DanglingRelations ==
  \A p \in Procs :
    /\ tool[p] = "create_relations" =>
         /\ pc[p] # "failed"
         /\ pc[p] = "done" =>
              \A i \in DOMAIN arg[p] :
                \E j \in DOMAIN Durable.relations :
                  RelationFields(Durable.relations[j]) = arg[p][i]
    /\ (pc[p] = "done" /\ tool[p] = "read_graph") =>
         result[p].relations = loaded[p].relations
    /\ (pc[p] = "done" /\ tool[p] \in {"search_nodes", "open_nodes"}) =>
         \A j \in DOMAIN result[p].relations :
           /\ Get(result[p].relations[j], "from") \in NamesIn(result[p])
           /\ Get(result[p].relations[j], "to") \in NamesIn(result[p])

\* readGraph returned a relation, written by an earlier call, whose to names
\* no entity of the graph.
C26_Witness ==
  \E p \in Procs :
    /\ pc[p] = "done" /\ tool[p] = "read_graph" /\ lastWriter # 0
    /\ \E j \in DOMAIN result[p].relations :
         Get(result[p].relations[j], "to") \notin NamesIn(result[p])

\* The entity names the entries of an addObservations or deleteObservations
\* batch carry.
NamedIn(batch) == {batch[i].entityName : i \in DOMAIN batch}

\* C28: a completed createEntities, addObservations or deleteObservations call
\* leaves the relation list as loaded; a completed createRelations or
\* deleteRelations call leaves the entity list as loaded; a completed
\* addObservations or deleteObservations call keeps the entities, each with
\* its name and entityType, and the observations of every entity no entry names.
C28_FrameEffects ==
  \A p \in Procs :
    pc[p] = "done" =>
      /\ tool[p] \in {"create_entities", "add_observations", "delete_observations"} =>
           Durable.relations = loaded[p].relations
      /\ tool[p] \in {"create_relations", "delete_relations"} =>
           Durable.entities = loaded[p].entities
      /\ tool[p] \in {"add_observations", "delete_observations"} =>
           /\ Len(Durable.entities) = Len(loaded[p].entities)
           /\ \A k \in DOMAIN loaded[p].entities :
                LET old == loaded[p].entities[k]
                    new == Durable.entities[k]
                IN /\ Get(new, "name") = Get(old, "name")
                   /\ Get(new, "entityType") = Get(old, "entityType")
                   /\ DOMAIN new = DOMAIN old
                   /\ Get(old, "name") \notin NamedIn(arg[p]) => new = old

\* A completed addObservations call added an observation to one entity of a
\* graph that holds a relation and another entity with an observation.
C28_Witness ==
  \E p \in Procs :
    /\ pc[p] = "done" /\ tool[p] = "add_observations"
    /\ result[p] # <<>> /\ result[p][1].addedObservations # <<>>
    /\ Durable.relations # <<>>
    /\ \E k \in DOMAIN Durable.entities :
         /\ NameOf(Durable.entities[k]) \notin NamedIn(arg[p])
         /\ Get(Durable.entities[k], "observations") # <<>>

\* C27: when no createEntities batch repeats a name and no createRelations
\* batch repeats a triple, the durable graph holds no name twice and no triple
\* twice, however the loads and writes of two callers interleave.
C27_UniqueUnderInterleaving == UniqueKeys(Durable)

\* A createEntities call of two entities wrote last, on a graph loaded before
\* the other caller completed a createEntities call that shares a name with it.
C27_Witness ==
  \E p, q \in Procs :
    /\ p # q /\ pc[p] = "done" /\ pc[q] = "done" /\ stale[p] /\ lastWriter = p
    /\ tool[p] = "create_entities" /\ tool[q] = "create_entities"
    /\ Len(arg[p]) = 2
    /\ \E i \in DOMAIN arg[p], j \in DOMAIN arg[q] : arg[p][i].name = arg[q][j].name

\* C25: on a fresh store, after createEntities([Alice, Bob]),
\* createRelations([Alice knows Bob]), addObservations([Alice: "likes coffee"])
\* and deleteEntities(["Bob"]) each completed in turn, readGraph returns one
\* entity with exactly the fields name "Alice", entityType "person" and
\* observations ["likes coffee"], and no relation.
C25_AliceAndBob ==
  \A p \in Procs :
    (ops = Len(Script) /\ pc[p] = "done" /\ tool[p] = "read_graph") =>
      result[p] = [entities |-> <<[name |-> "Alice", entityType |-> "person",
                                   observations |-> <<"likes coffee">>]>>,
                   relations |-> <<>>]

\* C23: a call whose request lacks the arguments object or the tool's argument
\* is rejected before the file is read or written: it is failed, never past
\* a load, and has written nothing.
C23_MissingArgumentsRejected ==
  \A p \in Procs :
    payload[p] \in {"absent", "empty"} => (pc[p] = "failed" /\ writes[p] = 0)

\* C24: a call that failed (missing entity, failed load, missing arguments)
\* settles with a response envelope of one text item whose error flag is set.
C24_FailuresAreEnvelopes ==
  \A p \in Procs :
    pc[p] = "failed" =>
      LET r == Response(p)
      IN /\ DOMAIN r = {"content", "isError"}
         /\ r.isError
         /\ Len(r.content) = 1
         /\ r.content[1].type = "text"

\* The exchange is the robots.txt request of the call in progress.
OwnRobots(x) == x.call = ops /\ x.url = RobotsTxt

\* C29: once robots.txt answered a fetch call with 401 or 403, or with rules
\* that disallow the URL, the target is not requested and the call ends in
\* an error response; once it answered with another 4xx status the target
\* is requested.
C29_RobotsDenialStopsFetch ==
  \A p \in Procs :
    tool[p] = "fetch" =>
      \A i \in DOMAIN http :
        OwnRobots(http[i]) =>
          LET s == http[i].status
              other4xx == s >= 400 /\ s < 500 /\ s \notin {401, 403}
              denied == s \in {401, 403} \/ (~ (s >= 400 /\ s < 500) /\ http[i].disallowed)
              requested == \E j \in DOMAIN http : http[j].call = ops /\ http[j].url = arg[p].url
          IN /\ denied =>
                  /\ pc[p] = "done"
                  /\ ~ requested
                  /\ DOMAIN result[p] = {"content", "isError"}
             /\ other4xx => (pc[p] \in {"target", "done"} /\ (pc[p] = "done" => requested))

====
